---- MODULE Spec2Model ----
(***************************************************************************)
(* Basketball league backend: the document store (User, Team, Player,     *)
(* Game), the REST handlers of routes/teams.js, routes/players.js and     *)
(* routes/games.js, and the real-time gateway of server.js and            *)
(* sockets/gameSockets.js.                                                 *)
(*                                                                         *)
(* A handler is a sequence of store operations, one per `await`.  Each    *)
(* action below is one store operation of one request together with the   *)
(* synchronous code that runs when it resolves (the checks, the early     *)
(* returns, the catch block).  Requests in flight interleave between      *)
(* their store operations.                                                 *)
(***************************************************************************)
EXTENDS Integers, FiniteSets, Sequences, TLC

\* ---------------------------------------------------------------- bounds
MaxRequests == 2     \* HTTP requests the clients send in one run

\* A reference that is null or absent (team: null, $unset, no document).
None == 0

TeamIds == {1, 2, 3, 4}    \* ObjectIds of Team documents, in the order created
PlayerIds == {1, 2, 3}    \* ObjectIds of Player documents, in the order created
GameIds == {1, 2}         \* ObjectIds of Game documents, in the order created
Jerseys == {1, 2}         \* jersey numbers (the code allows 0..99)
Slots == {1, 2}           \* requests being handled at the same time
ConnIds == {1, 2}         \* real-time connections, in the order they arrive
TeamNames == {"Hawks", "Bulls", "Nets"}

\* The registered accounts (registration itself is routes/auth.js).
Admins == {"admin"}
Coaches == {"c1", "c2", "c3"}
PlayerUsers == {"u1", "u2"}
UserIds == Admins \cup Coaches \cup PlayerUsers
\* A request without a valid bearer credential.
Anon == "anon"

VARIABLES
  teams,       \* Team collection: id -> document
  players,     \* Player collection: id -> document
  users,       \* User collection: id -> document
  games,       \* Game collection: id -> document
  nextTeam,    \* the id the next created Team document gets
  nextPlayer,  \* the id the next created Player document gets
  nextGame,    \* the id the next created Game document gets
  req,         \* slot -> the request being handled there
  started,     \* requests received so far
  resp,        \* the response sent by the last step, if it sent one
  failed,      \* some request so far was answered with an error status (>= 400)
  crashed,     \* an exception escaped a handler: the process is gone
  socks,       \* real-time connections: id -> socket
  inbox        \* per connection, the gameUpdated events it received, in order

store == <<teams, players, users, nextPlayer>>
\* What the team and player routes other than POST /api/teams never touch.
rest == <<nextTeam, games, nextGame, socks, inbox>>
vars == <<teams, players, users, games, nextTeam, nextPlayer, nextGame,
          req, started, resp, failed, crashed, socks, inbox>>

\* ------------------------------------------------------------- documents
\* stats.winPercentage is a fraction <<numerator, denominator>>; <<0, 0>> is a
\* document without the field.
NoWp == <<0, 0>>
NoTeam == [exists |-> FALSE, name |-> "", coach |-> "", members |-> {},
           wins |-> 0, losses |-> 0, wp |-> NoWp]
NoGame == [exists |-> FALSE, home |-> None, away |-> None, hs |-> 0, as |-> 0]
NoSock == [state |-> "closed", nsp |-> "", token |-> "", user |-> "",
           handler |-> FALSE, rooms |-> {}]

\* teamSchema.pre('save'): the win percentage of a saved team.
WinPercentage(w, l) == IF w + l > 0 THEN <<w, w + l>> ELSE <<0, 1>>
NoPlayer == [exists |-> FALSE, user |-> "", team |-> None, jersey |-> None]

RoleOf(u) ==
  IF u \in Admins THEN "admin" ELSE IF u \in Coaches THEN "coach" ELSE "player"

Idle == [kind |-> "idle"]
NoResp == [code |-> 0, msg |-> "", rq |-> Idle]

NewReq(kind, actor, t, p, u, j) ==
  [kind |-> kind, pc |-> "start", actor |-> actor, team |-> t, player |-> p,
   user |-> u, jersey |-> j, name |-> "", shape |-> "", wins |-> 0, losses |-> 0,
   wp |-> NoWp, game |-> None, hs |-> 0, as |-> 0,
   sCoach |-> "", sMembers |-> {}, sUser |-> "", sTeam |-> None, newId |-> None,
   wrote |-> FALSE]
\* Fields s*: what the handler keeps of the documents it loaded (sMembers: the
\* players list of the loaded team, or the two teams of the loaded game);
\* newId: the _id of the document it created; wrote: it has issued a write.

IsIdle(r) == req[r].kind = "idle"
HasFreeSlot == ~crashed /\ started < MaxRequests /\ \E r \in Slots : IsIdle(r)
FreeSlot == CHOOSE r \in Slots : IsIdle(r) /\ \A q \in Slots : IsIdle(q) => r <= q

At(r, kind, pc) == ~crashed /\ req[r].kind = kind /\ req[r].pc = pc

\* res.status(code).json({message}): the request ends.
Respond(r, rq, code, msg) ==
  /\ resp' = [code |-> code, msg |-> msg, rq |-> rq]
  /\ req' = [req EXCEPT ![r] = Idle]
  /\ started' = started + (IF rq.pc = "start" THEN 1 ELSE 0)
  /\ failed' = (failed \/ code >= 400)
  /\ UNCHANGED crashed

\* The handler goes on to its next store operation.
Continue(r, rq) ==
  /\ req' = [req EXCEPT ![r] = rq]
  /\ resp' = NoResp
  /\ started' = started + (IF req[r].kind = "idle" THEN 1 ELSE 0)
  /\ UNCHANGED <<failed, crashed>>

\* protect, then authorize(...allowed): 401 without a credential, 403 when the
\* role is not in the route's allow-list, 0 when the request passes.
AuthGate(actor, allowed) ==
  IF actor = Anon THEN 401
  ELSE IF RoleOf(actor) \notin allowed THEN 403
  ELSE 0

\* The index declared without { unique: true }: the store accepts any pair.
UniqueJerseyNotEnforced(p, t, j) == TRUE

\* playerSchema.index({ jerseyNumber: 1, team: 1 }, { unique: true }): whether the
\* store accepts document p carrying (t, j).  An absent team is indexed as null.
UniqueJerseyOk(p, t, j) ==
  \A q \in PlayerIds :
    (q # p /\ players[q].exists) => ~(players[q].team = t /\ players[q].jersey = j)

\* The league the runs start from: teams 1 and 2, created by their coaches c1 and
\* c2 (POST /api/teams), and player 1, created for user u1 on team 1 with jersey 1
\* (POST /api/players), game 1 between them (POST /api/games); no request is in
\* flight and no client is connected.
Init ==
  /\ teams = [t \in TeamIds |->
                IF t = 1 THEN [NoTeam EXCEPT !.exists = TRUE, !.name = "Hawks",
                                            !.coach = "c1", !.members = {1},
                                            !.wp = WinPercentage(0, 0)]
                ELSE IF t = 2 THEN [NoTeam EXCEPT !.exists = TRUE, !.name = "Bulls",
                                                  !.coach = "c2",
                                                  !.wp = WinPercentage(0, 0)]
                ELSE NoTeam]
  /\ players = [p \in PlayerIds |->
                  IF p = 1 THEN [exists |-> TRUE, user |-> "u1", team |-> 1, jersey |-> 1]
                  ELSE NoPlayer]
  /\ users = [u \in UserIds |->
                [team |-> IF u = "u1" THEN 1 ELSE None,
                 profile |-> IF u = "u1" THEN 1 ELSE None,
                 managed |-> IF u = "c1" THEN {1} ELSE IF u = "c2" THEN {2} ELSE {}]]
  /\ games = [g \in GameIds |->
                IF g = 1 THEN [exists |-> TRUE, home |-> 1, away |-> 2, hs |-> 0, as |-> 0]
                ELSE NoGame]
  /\ nextTeam = 3
  /\ nextPlayer = 2
  /\ nextGame = 2
  /\ socks = [c \in ConnIds |-> NoSock]
  /\ inbox = [c \in ConnIds |-> << >>]
  /\ started = 0
  /\ req = [r \in Slots |-> Idle]
  /\ resp = NoResp
  /\ failed = FALSE
  /\ crashed = FALSE

\* ------------------------------------------------- POST /api/players
CreatesInFlight == Cardinality({r \in Slots : req[r].kind = "createPlayer"})

CreatePlayerBegin(actor, u, t, j) ==
  LET r == FreeSlot
      rq == NewReq("createPlayer", actor, t, None, u, j)
      gate == AuthGate(actor, {"admin", "coach"})
  IN /\ HasFreeSlot
     /\ UNCHANGED rest
     /\ nextPlayer + CreatesInFlight \in PlayerIds
     /\ UNCHANGED store
     /\ IF gate # 0 THEN Respond(r, rq, gate, "Not authorized")
        ELSE IF u \notin PlayerUsers
          THEN Respond(r, rq, 400, "User must exist and have player role")
        ELSE IF ~teams[t].exists THEN Respond(r, rq, 400, "Team not found")
        ELSE IF RoleOf(actor) = "coach" /\ teams[t].coach # actor
          THEN Respond(r, rq, 403, "Not authorized to add players to this team")
        ELSE Continue(r, [rq EXCEPT !.pc = "cp_findUser"])

CreatePlayerFindUser(r) ==
  /\ At(r, "createPlayer", "cp_findUser")
  /\ UNCHANGED rest
  /\ UNCHANGED store
  /\ IF \E p \in PlayerIds : players[p].exists /\ players[p].user = req[r].user
       THEN Respond(r, req[r], 400, "User already has a player profile")
       ELSE Continue(r, [req[r] EXCEPT !.pc = "cp_findJersey"])

CreatePlayerFindJersey(r) ==
  /\ At(r, "createPlayer", "cp_findJersey")
  /\ UNCHANGED rest
  /\ UNCHANGED store
  /\ IF \E p \in PlayerIds : /\ players[p].exists
                             /\ players[p].team = req[r].team
                             /\ players[p].jersey = req[r].jersey
       THEN Respond(r, req[r], 400, "Jersey number already taken in this team")
       ELSE Continue(r, [req[r] EXCEPT !.pc = "cp_create"])

CreatePlayerCreate(r) ==
  /\ At(r, "createPlayer", "cp_create")
  /\ UNCHANGED rest
  /\ UNCHANGED <<teams, users>>
  /\ IF UniqueJerseyOk(nextPlayer, req[r].team, req[r].jersey)
       THEN /\ players' = [players EXCEPT ![nextPlayer] =
                             [exists |-> TRUE, user |-> req[r].user,
                              team |-> req[r].team, jersey |-> req[r].jersey]]
            /\ nextPlayer' = nextPlayer + 1
            /\ Continue(r, [req[r] EXCEPT !.pc = "cp_linkUser",
                                          !.newId = nextPlayer, !.wrote = TRUE])
       ELSE /\ UNCHANGED <<players, nextPlayer>>
            /\ Respond(r, req[r], 500, "Server error")

CreatePlayerLinkUser(r) ==
  /\ At(r, "createPlayer", "cp_linkUser")
  /\ UNCHANGED rest
  /\ users' = [users EXCEPT ![req[r].user].team = req[r].team,
                            ![req[r].user].profile = req[r].newId]
  /\ UNCHANGED <<teams, players, nextPlayer>>
  /\ Continue(r, [req[r] EXCEPT !.pc = "cp_linkTeam"])

CreatePlayerLinkTeam(r) ==
  /\ At(r, "createPlayer", "cp_linkTeam")
  /\ UNCHANGED rest
  /\ teams' = IF teams[req[r].team].exists
                THEN [teams EXCEPT ![req[r].team].members = @ \cup {req[r].newId}]
                ELSE teams
  /\ UNCHANGED <<players, users, nextPlayer>>
  /\ Continue(r, [req[r] EXCEPT !.pc = "cp_respond"])

CreatePlayerRespond(r) ==
  /\ At(r, "createPlayer", "cp_respond")
  /\ UNCHANGED rest
  /\ UNCHANGED store
  /\ Respond(r, req[r], 201, "")

\* ------------------------------------------------- PUT /api/players/:id
\* Player.findById(id).populate('team'): the team document the player refers to,
\* or null when the reference is empty or dangling.
PopulatedTeam(p) ==
  IF players[p].team # None /\ teams[players[p].team].exists
    THEN players[p].team ELSE None

\* The body carries team t and/or jersey j (None: the field is not in the body).
UpdatePlayerBegin(actor, p, t, j) ==
  LET r == FreeSlot
      rq == NewReq("updatePlayer", actor, t, p, "", j)
      gate == AuthGate(actor, {"admin", "coach"})
  IN /\ HasFreeSlot
     /\ UNCHANGED rest
     /\ UNCHANGED store
     /\ IF gate # 0 THEN Respond(r, rq, gate, "Not authorized")
        ELSE IF ~players[p].exists THEN Respond(r, rq, 404, "Player not found")
        ELSE IF RoleOf(actor) = "coach" /\ PopulatedTeam(p) = None
          THEN Respond(r, rq, 500, "Server error")      \* player.team.coach of null
        ELSE IF RoleOf(actor) = "coach" /\ teams[PopulatedTeam(p)].coach # actor
          THEN Respond(r, rq, 403, "Not authorized to update this player")
        ELSE Continue(r, [rq EXCEPT !.pc = "up_write"])

UpdatePlayerWrite(r) ==
  LET p == req[r].player
      t == IF req[r].team = None THEN players[p].team ELSE req[r].team
      j == IF req[r].jersey = None THEN players[p].jersey ELSE req[r].jersey
      rq == [req[r] EXCEPT !.wrote = TRUE]
  IN /\ At(r, "updatePlayer", "up_write")
     /\ UNCHANGED rest
     /\ UNCHANGED <<teams, users, nextPlayer>>
     /\ IF ~players[p].exists
          THEN UNCHANGED players /\ Respond(r, req[r], 200, "")   \* data: null
        ELSE IF UniqueJerseyOk(p, t, j)
          THEN /\ players' = [players EXCEPT ![p].team = t, ![p].jersey = j]
               /\ Respond(r, rq, 200, "")
        ELSE UNCHANGED players /\ Respond(r, req[r], 500, "Server error")

\* ------------------------------------------------- DELETE /api/players/:id
DeletePlayerBegin(actor, p) ==
  LET r == FreeSlot
      rq == NewReq("deletePlayer", actor, None, p, "", None)
      gate == AuthGate(actor, {"admin", "coach"})
  IN /\ HasFreeSlot
     /\ UNCHANGED rest
     /\ UNCHANGED store
     /\ IF gate # 0 THEN Respond(r, rq, gate, "Not authorized")
        ELSE IF ~players[p].exists THEN Respond(r, rq, 404, "Player not found")
        ELSE IF PopulatedTeam(p) = None
          \* a coach: player.team.coach of null; an admin: player.team._id of null
          THEN Respond(r, rq, 500, "Server error")
        ELSE IF RoleOf(actor) = "coach" /\ teams[PopulatedTeam(p)].coach # actor
          THEN Respond(r, rq, 403, "Not authorized to delete this player")
        ELSE Continue(r, [rq EXCEPT !.pc = "dp_pull", !.sTeam = PopulatedTeam(p),
                                    !.sUser = players[p].user])

DeletePlayerPull(r) ==
  /\ At(r, "deletePlayer", "dp_pull")
  /\ UNCHANGED rest
  /\ teams' = IF teams[req[r].sTeam].exists
                THEN [teams EXCEPT ![req[r].sTeam].members = @ \ {req[r].player}]
                ELSE teams
  /\ UNCHANGED <<players, users, nextPlayer>>
  /\ Continue(r, [req[r] EXCEPT !.pc = "dp_unsetUser", !.wrote = TRUE])

DeletePlayerUnsetUser(r) ==
  /\ At(r, "deletePlayer", "dp_unsetUser")
  /\ UNCHANGED rest
  /\ users' = [users EXCEPT ![req[r].sUser].team = None,
                            ![req[r].sUser].profile = None]
  /\ UNCHANGED <<teams, players, nextPlayer>>
  /\ Continue(r, [req[r] EXCEPT !.pc = "dp_delete"])

DeletePlayerDelete(r) ==
  /\ At(r, "deletePlayer", "dp_delete")
  /\ UNCHANGED rest
  /\ players' = [players EXCEPT ![req[r].player] = NoPlayer]
  /\ UNCHANGED <<teams, users, nextPlayer>>
  /\ Respond(r, req[r], 200, "Player deleted successfully")

\* ------------------------------------------------- POST /api/teams/:id/players
\* The ownership check the team routes share: the team's coach or an admin.
MayManageTeam(actor, t) == RoleOf(actor) = "admin" \/ teams[t].coach = actor

AddPlayerBegin(actor, t, p) ==
  LET r == FreeSlot
      rq == NewReq("addPlayer", actor, t, p, "", None)
      gate == AuthGate(actor, {"admin", "coach"})
  IN /\ HasFreeSlot
     /\ UNCHANGED rest
     /\ UNCHANGED store
     /\ IF gate # 0 THEN Respond(r, rq, gate, "Not authorized")
        ELSE IF ~teams[t].exists THEN Respond(r, rq, 404, "Team not found")
        ELSE IF ~MayManageTeam(actor, t)
          THEN Respond(r, rq, 403, "Not authorized to manage this team")
        ELSE Continue(r, [rq EXCEPT !.pc = "ap_findPlayer",
                                    !.sMembers = teams[t].members])

AddPlayerFindPlayer(r) ==
  /\ At(r, "addPlayer", "ap_findPlayer")
  /\ UNCHANGED rest
  /\ UNCHANGED store
  /\ IF ~players[req[r].player].exists
       THEN Respond(r, req[r], 404, "Player not found")
     ELSE IF req[r].player \in req[r].sMembers
       THEN Respond(r, req[r], 400, "Player is already on this team")
     ELSE Continue(r, [req[r] EXCEPT !.pc = "ap_setTeam",
                                     !.sUser = players[req[r].player].user])

AddPlayerSetTeam(r) ==
  LET p == req[r].player
      rq == [req[r] EXCEPT !.pc = "ap_addToSet", !.wrote = TRUE]
  IN /\ At(r, "addPlayer", "ap_setTeam")
     /\ UNCHANGED rest
     /\ UNCHANGED <<teams, users, nextPlayer>>
     /\ IF ~players[p].exists THEN UNCHANGED players /\ Continue(r, rq)
        ELSE IF UniqueJerseyOk(p, req[r].team, players[p].jersey)
          THEN /\ players' = [players EXCEPT ![p].team = req[r].team]
               /\ Continue(r, rq)
        ELSE UNCHANGED players /\ Respond(r, req[r], 500, "Server error")

AddPlayerAddToSet(r) ==
  /\ At(r, "addPlayer", "ap_addToSet")
  /\ UNCHANGED rest
  /\ teams' = IF teams[req[r].team].exists
                THEN [teams EXCEPT ![req[r].team].members = @ \cup {req[r].player}]
                ELSE teams
  /\ UNCHANGED <<players, users, nextPlayer>>
  /\ Continue(r, [req[r] EXCEPT !.pc = "ap_linkUser"])

AddPlayerLinkUser(r) ==
  /\ At(r, "addPlayer", "ap_linkUser")
  /\ UNCHANGED rest
  /\ users' = [users EXCEPT ![req[r].sUser].team = req[r].team]
  /\ UNCHANGED <<teams, players, nextPlayer>>
  /\ Continue(r, [req[r] EXCEPT !.pc = "ap_respond"])

AddPlayerRespond(r) ==
  /\ At(r, "addPlayer", "ap_respond")
  /\ UNCHANGED rest
  /\ UNCHANGED store
  /\ Respond(r, req[r], 200, "")

\* ------------------------------------- DELETE /api/teams/:id/players/:playerId
RemovePlayerBegin(actor, t, p) ==
  LET r == FreeSlot
      rq == NewReq("removePlayer", actor, t, p, "", None)
      gate == AuthGate(actor, {"admin", "coach"})
  IN /\ HasFreeSlot
     /\ UNCHANGED rest
     /\ UNCHANGED store
     /\ IF gate # 0 THEN Respond(r, rq, gate, "Not authorized")
        ELSE IF ~teams[t].exists THEN Respond(r, rq, 404, "Team not found")
        ELSE IF ~MayManageTeam(actor, t)
          THEN Respond(r, rq, 403, "Not authorized to manage this team")
        ELSE Continue(r, [rq EXCEPT !.pc = "rp_findPlayer"])

RemovePlayerFindPlayer(r) ==
  /\ At(r, "removePlayer", "rp_findPlayer")
  /\ UNCHANGED rest
  /\ UNCHANGED store
  /\ IF ~players[req[r].player].exists
       THEN Respond(r, req[r], 404, "Player not found")
       ELSE Continue(r, [req[r] EXCEPT !.pc = "rp_pull",
                                       !.sUser = players[req[r].player].user])

RemovePlayerPull(r) ==
  /\ At(r, "removePlayer", "rp_pull")
  /\ UNCHANGED rest
  /\ teams' = IF teams[req[r].team].exists
                THEN [teams EXCEPT ![req[r].team].members = @ \ {req[r].player}]
                ELSE teams
  /\ UNCHANGED <<players, users, nextPlayer>>
  /\ Continue(r, [req[r] EXCEPT !.pc = "rp_setNull", !.wrote = TRUE])

RemovePlayerSetNull(r) ==
  LET p == req[r].player
      rq == [req[r] EXCEPT !.pc = "rp_userNull"]
  IN /\ At(r, "removePlayer", "rp_setNull")
     /\ UNCHANGED rest
     /\ UNCHANGED <<teams, users, nextPlayer>>
     /\ IF ~players[p].exists THEN UNCHANGED players /\ Continue(r, rq)
        ELSE IF UniqueJerseyOk(p, None, players[p].jersey)
          THEN players' = [players EXCEPT ![p].team = None] /\ Continue(r, rq)
        ELSE UNCHANGED players /\ Respond(r, req[r], 500, "Server error")

RemovePlayerUserNull(r) ==
  /\ At(r, "removePlayer", "rp_userNull")
  /\ UNCHANGED rest
  /\ users' = [users EXCEPT ![req[r].sUser].team = None]
  /\ UNCHANGED <<teams, players, nextPlayer>>
  /\ Continue(r, [req[r] EXCEPT !.pc = "rp_respond"])

RemovePlayerRespond(r) ==
  /\ At(r, "removePlayer", "rp_respond")
  /\ UNCHANGED rest
  /\ UNCHANGED store
  /\ Respond(r, req[r], 200, "")

\* ------------------------------------------------- DELETE /api/teams/:id
DeleteTeamBegin(actor, t) ==
  LET r == FreeSlot
      rq == NewReq("deleteTeam", actor, t, None, "", None)
      gate == AuthGate(actor, {"admin", "coach"})
  IN /\ HasFreeSlot
     /\ UNCHANGED rest
     /\ UNCHANGED store
     /\ IF gate # 0 THEN Respond(r, rq, gate, "Not authorized")
        ELSE IF ~teams[t].exists THEN Respond(r, rq, 404, "Team not found")
        ELSE IF ~MayManageTeam(actor, t)
          THEN Respond(r, rq, 403, "Not authorized to delete this team")
        ELSE Continue(r, [rq EXCEPT !.pc = "dt_unsetPlayers",
                                    !.sCoach = teams[t].coach])

\* Player.updateMany({team}, {$unset: {team: 1}}): the store rewrites the matching
\* documents one at a time and stops at the first one the unique index refuses;
\* the documents rewritten before it stay rewritten.
DeleteTeamUnsetPlayers(r) ==
  LET t == req[r].team
      onTeam == {p \in PlayerIds : players[p].exists /\ players[p].team = t}
      refused == {p \in onTeam : ~UniqueJerseyOk(p, None, players[p].jersey)}
      Unset(done) == [p \in PlayerIds |->
                        IF p \in done THEN [players[p] EXCEPT !.team = None]
                        ELSE players[p]]
      rq == [req[r] EXCEPT !.wrote = TRUE]
  IN /\ At(r, "deleteTeam", "dt_unsetPlayers")
     /\ UNCHANGED rest
     /\ UNCHANGED <<teams, users, nextPlayer>>
     /\ IF refused = {}
          THEN /\ players' = Unset(onTeam)
               /\ Continue(r, [rq EXCEPT !.pc = "dt_pullManaged"])
          ELSE \E done \in SUBSET (onTeam \ refused) :
                 /\ players' = Unset(done)
                 /\ Respond(r, rq, 500, "Server error")

DeleteTeamPullManaged(r) ==
  /\ At(r, "deleteTeam", "dt_pullManaged")
  /\ UNCHANGED rest
  /\ users' = [users EXCEPT ![req[r].sCoach].managed = @ \ {req[r].team}]
  /\ UNCHANGED <<teams, players, nextPlayer>>
  /\ Continue(r, [req[r] EXCEPT !.pc = "dt_unsetUsers"])

DeleteTeamUnsetUsers(r) ==
  /\ At(r, "deleteTeam", "dt_unsetUsers")
  /\ UNCHANGED rest
  /\ users' = [u \in UserIds |->
                 IF users[u].team = req[r].team THEN [users[u] EXCEPT !.team = None]
                 ELSE users[u]]
  /\ UNCHANGED <<teams, players, nextPlayer>>
  /\ Continue(r, [req[r] EXCEPT !.pc = "dt_delete"])

DeleteTeamDelete(r) ==
  /\ At(r, "deleteTeam", "dt_delete")
  /\ UNCHANGED rest
  /\ teams' = [teams EXCEPT ![req[r].team] = NoTeam]
  /\ UNCHANGED <<players, users, nextPlayer>>
  /\ Respond(r, req[r], 200, "Team deleted successfully")

\* ------------------------------------------------- POST /api/teams
\* What the team routes and the game routes leave alone.
playerSide == <<players, nextPlayer>>
gameSide == <<games, nextGame>>
liveSide == <<socks, inbox>>

TeamCreatesInFlight == Cardinality({r \in Slots : req[r].kind = "createTeam"})

\* The body names the team and, for an admin, the coach ("": no coach in the body).
CreateTeamBegin(actor, name, coach) ==
  LET r == FreeSlot
      rq == [NewReq("createTeam", actor, None, None, coach, None) EXCEPT !.name = name]
      gate == AuthGate(actor, {"admin", "coach"})
      coachId == IF RoleOf(actor) = "coach" THEN actor ELSE coach
  IN /\ HasFreeSlot
     /\ nextTeam + TeamCreatesInFlight \in TeamIds
     /\ UNCHANGED <<store, rest>>
     /\ IF gate # 0 THEN Respond(r, rq, gate, "Not authorized")
        ELSE IF \E t \in TeamIds : teams[t].exists /\ teams[t].name = name
          THEN Respond(r, rq, 400, "Team name already exists")
        ELSE IF coachId = "" THEN Respond(r, rq, 400, "Coach must be specified")
        ELSE IF coachId \notin Coaches THEN Respond(r, rq, 400, "Invalid coach specified")
        ELSE Continue(r, [rq EXCEPT !.pc = "ct_create", !.sCoach = coachId])

\* teamSchema.name is unique: whether the store accepts a team of this name.
UniqueNameOk(name) == \A t \in TeamIds : teams[t].exists => teams[t].name # name

CreateTeamCreate(r) ==
  /\ At(r, "createTeam", "ct_create")
  /\ UNCHANGED <<players, users, nextPlayer, gameSide, liveSide>>
  /\ IF UniqueNameOk(req[r].name)
       THEN /\ teams' = [teams EXCEPT ![nextTeam] =
                           [exists |-> TRUE, name |-> req[r].name,
                            coach |-> req[r].sCoach, members |-> {},
                            wins |-> 0, losses |-> 0, wp |-> WinPercentage(0, 0)]]
            /\ nextTeam' = nextTeam + 1
            /\ Continue(r, [req[r] EXCEPT !.pc = "ct_addManaged", !.newId = nextTeam,
                                          !.wrote = TRUE])
       ELSE /\ UNCHANGED <<teams, nextTeam>>
            /\ Respond(r, req[r], 500, "Server error")

CreateTeamAddManaged(r) ==
  /\ At(r, "createTeam", "ct_addManaged")
  /\ users' = [users EXCEPT ![req[r].sCoach].managed = @ \cup {req[r].newId}]
  /\ UNCHANGED <<teams, players, nextPlayer, rest>>
  /\ Continue(r, [req[r] EXCEPT !.pc = "ct_respond"])

CreateTeamRespond(r) ==
  /\ At(r, "createTeam", "ct_respond")
  /\ UNCHANGED <<store, rest>>
  /\ Respond(r, req[r], 201, "")

\* ------------------------------------------------- PUT /api/teams/:id
\* The body carries win/loss counters.  shape "nested": {stats: {wins, losses[,
\* winPercentage]}}, which replaces the stats object; shape "dotted":
\* {'stats.wins', 'stats.losses'}, which sets the two paths only.
UpdateTeamBegin(actor, t, shape, w, l, wp) ==
  LET r == FreeSlot
      rq == [NewReq("updateTeam", actor, t, None, "", None)
               EXCEPT !.shape = shape, !.wins = w, !.losses = l, !.wp = wp]
      gate == AuthGate(actor, {"admin", "coach"})
  IN /\ HasFreeSlot
     /\ shape = "dotted" => wp = NoWp
     /\ UNCHANGED <<store, rest>>
     /\ IF gate # 0 THEN Respond(r, rq, gate, "Not authorized")
        ELSE IF ~teams[t].exists THEN Respond(r, rq, 404, "Team not found")
        ELSE IF ~MayManageTeam(actor, t)
          THEN Respond(r, rq, 403, "Not authorized to update this team")
        ELSE Continue(r, [rq EXCEPT !.pc = "ut_write"])

\* Team.findByIdAndUpdate(id, req.body, {new, runValidators}): no save, so
\* pre('save') does not run.
UpdateTeamWrite(r) ==
  LET t == req[r].team
      wp == IF req[r].shape = "nested" THEN req[r].wp ELSE teams[t].wp
  IN /\ At(r, "updateTeam", "ut_write")
     /\ UNCHANGED <<players, users, nextPlayer, rest>>
     /\ teams' = IF teams[t].exists
                   THEN [teams EXCEPT ![t].wins = req[r].wins,
                                      ![t].losses = req[r].losses, ![t].wp = wp]
                   ELSE teams
     /\ Respond(r, [req[r] EXCEPT !.wrote = TRUE], 200, "")

\* ------------------------------------------------- POST /api/games
CreateGame(actor, home, away) ==
  LET r == FreeSlot
      rq == [NewReq("createGame", actor, None, None, "", None)
               EXCEPT !.hs = home, !.as = away]
      gate == AuthGate(actor, {"admin", "coach"})
  IN /\ HasFreeSlot
     /\ nextGame \in GameIds
     /\ UNCHANGED <<store, nextTeam, liveSide>>
     /\ IF gate # 0
          THEN UNCHANGED gameSide /\ Respond(r, rq, gate, "Not authorized")
          ELSE /\ games' = [games EXCEPT ![nextGame] =
                              [exists |-> TRUE, home |-> home, away |-> away,
                               hs |-> 0, as |-> 0]]
               /\ nextGame' = nextGame + 1
               /\ Respond(r, [rq EXCEPT !.game = nextGame, !.wrote = TRUE], 201, "")

\* ------------------------------------------------- PUT /api/games/:id
\* The body carries the two scores; the schema validators refuse a negative one.
UpdateGame(actor, g, h, a) ==
  LET r == FreeSlot
      rq == [NewReq("updateGame", actor, None, None, "", None)
               EXCEPT !.game = g, !.hs = h, !.as = a]
      gate == AuthGate(actor, {"admin", "coach"})
  IN /\ HasFreeSlot
     /\ UNCHANGED <<store, nextTeam, nextGame, liveSide>>
     /\ IF gate # 0 THEN UNCHANGED games /\ Respond(r, rq, gate, "Not authorized")
        ELSE IF h < 0 \/ a < 0
          THEN UNCHANGED games /\ Respond(r, rq, 500, "Server error")
        ELSE IF ~games[g].exists
          THEN UNCHANGED games /\ Respond(r, rq, 404, "Game not found")
        ELSE /\ games' = [games EXCEPT ![g].hs = h, ![g].as = a]
             /\ Respond(r, [rq EXCEPT !.wrote = TRUE,
                                      !.sMembers = {games[g].home, games[g].away}],
                        200, "")

\* ------------------------------------------------- DELETE /api/games/:id
DeleteGame(actor, g) ==
  LET r == FreeSlot
      rq == [NewReq("deleteGame", actor, None, None, "", None) EXCEPT !.game = g]
      gate == AuthGate(actor, {"admin", "coach"})
  IN /\ HasFreeSlot
     /\ UNCHANGED <<store, nextTeam, nextGame, liveSide>>
     /\ IF gate # 0 THEN UNCHANGED games /\ Respond(r, rq, gate, "Not authorized")
        ELSE IF ~games[g].exists
          THEN UNCHANGED games /\ Respond(r, rq, 404, "Game not found")
        ELSE /\ games' = [games EXCEPT ![g] = NoGame]
             /\ Respond(r, [rq EXCEPT !.wrote = TRUE,
                                      !.sMembers = {games[g].home, games[g].away}],
                        200, "Game deleted successfully")

\* ------------------------------------------------- the real-time gateway
\* io.use(protectSocket) registers the handshake check on the server's main
\* namespace; initGameSockets registers the connection handler on io.of("/api/game");
\* io.to(room).emit(...) addresses the rooms of the main namespace.  Each namespace
\* has its own middleware, its own connection handlers and its own rooms.
MainNamespace == "/"
GameNamespace == "/api/game"
\* The token check registered on the namespace of the handlers instead.
AuthOnGameNamespace == GameNamespace
AuthNamespace == MainNamespace
HandlerNamespace == GameNamespace
EmitNamespace == MainNamespace
Namespaces == {MainNamespace, GameNamespace}

\* A handshake token: none, one that fails jwt.verify, a signed one whose user is
\* gone, or a signed one of a registered user (the user's id).
Tokens == {"none", "bad", "ghost"} \cup UserIds

\* protectSocket: the user attached to the socket, or "" when next(err) refuses it.
ProtectSocket(token) ==
  IF token = "none" THEN ""
  ELSE IF token = "bad" THEN ""
  ELSE IF token \notin UserIds THEN ""
  ELSE token

\* A client connects to namespace nsp with the token in its handshake.
Connect(c, nsp, token) ==
  LET checked == nsp = AuthNamespace
      refused == checked /\ ProtectSocket(token) = ""
  IN /\ ~crashed
     /\ socks[c].state = "closed"
     /\ \A d \in ConnIds : d < c => socks[d].state # "closed"
     /\ socks' = [socks EXCEPT ![c] =
                    IF refused
                      THEN [NoSock EXCEPT !.state = "refused", !.nsp = nsp,
                                          !.token = token]
                      ELSE [state |-> "open", nsp |-> nsp, token |-> token,
                            user |-> IF checked THEN ProtectSocket(token) ELSE "",
                            handler |-> (nsp = HandlerNamespace), rooms |-> {}]]
     /\ resp' = NoResp
     /\ UNCHANGED <<store, nextTeam, gameSide, req, started, failed, crashed, inbox>>

\* What the last step handled when it was a real-time event: no HTTP response.
HandledEvent(kind, c, payload) ==
  [code |-> 0, msg |-> "", rq |-> [kind |-> kind, conn |-> c, payload |-> payload]]

\* The client emits joinGame(gameId); only a socket the connection handler ran for
\* has a listener for it.
JoinGame(c, room) ==
  /\ ~crashed
  /\ socks[c].state = "open"
  /\ socks[c].handler
  /\ socks' = [socks EXCEPT ![c].rooms = @ \cup {room}]
  /\ resp' = HandledEvent("joinGame", c, [given |-> TRUE, game |-> room, hs |-> 0, as |-> 0])
  /\ UNCHANGED <<store, nextTeam, gameSide, req, started, failed, crashed, inbox>>

\* io.to(room).emit("gameUpdated", payload): every open socket of the emitting
\* namespace that is in the room gets the event once.
Receives(c, room) ==
  /\ socks[c].state = "open"
  /\ socks[c].nsp = EmitNamespace
  /\ room \in socks[c].rooms

Deliver(room, payload) ==
  inbox' = [c \in ConnIds |->
              IF Receives(c, room) THEN Append(inbox[c], payload) ELSE inbox[c]]

\* The argument of an updateGame event: nothing at all, or {gameId, homeScore,
\* awayScore}.
NoPayload == [given |-> FALSE, game |-> None, hs |-> 0, as |-> 0]
UpdatePayloads ==
  {NoPayload} \cup {[given |-> TRUE, game |-> g, hs |-> 1, as |-> 0] : g \in GameIds}

\* The updateGame handler of the variant that persists before it broadcasts and
\* checks no role.
EmitUpdateGamePersisting(c, payload) ==
  /\ ~crashed
  /\ socks[c].state = "open"
  /\ resp' = HandledEvent("updateGame", c, payload)
  /\ UNCHANGED <<store, nextTeam, nextGame, req, started, failed, crashed, socks>>
  /\ IF socks[c].handler /\ payload.given /\ games[payload.game].exists
       THEN /\ games' = [games EXCEPT ![payload.game].hs = payload.hs,
                                      ![payload.game].as = payload.as]
            /\ Deliver(payload.game, payload)
       ELSE UNCHANGED <<games, inbox>>

\* The client emits updateGame(payload).  A socket without the connection handler
\* has no listener.  The listener rebroadcasts for an attached admin or coach;
\* reading payload.gameId of a missing payload throws, and nothing catches it.
EmitUpdateGame(c, payload) ==
  /\ ~crashed
  /\ socks[c].state = "open"
  /\ resp' = HandledEvent("updateGame", c, payload)
  /\ UNCHANGED <<store, nextTeam, gameSide, req, started, failed, socks>>
  /\ IF socks[c].handler /\ socks[c].user \in Admins \cup Coaches
       THEN IF payload.given
              THEN Deliver(payload.game, payload) /\ UNCHANGED crashed
              ELSE crashed' = TRUE /\ UNCHANGED inbox
       ELSE UNCHANGED <<crashed, inbox>>

\* ------------------------------------------------- PUT /api/games/:id/score
UpdateScoreBegin(actor, g, h, a) ==
  LET r == FreeSlot
      rq == [NewReq("updateScore", actor, None, None, "", None)
               EXCEPT !.game = g, !.hs = h, !.as = a]
      gate == AuthGate(actor, {"admin", "coach"})
  IN /\ HasFreeSlot
     /\ UNCHANGED <<store, nextTeam, nextGame, liveSide>>
     /\ IF gate # 0 THEN UNCHANGED games /\ Respond(r, rq, gate, "Not authorized")
        ELSE IF h < 0 \/ a < 0
          THEN UNCHANGED games /\ Respond(r, rq, 400, "Validation errors")
        ELSE IF ~games[g].exists
          THEN UNCHANGED games /\ Respond(r, rq, 404, "Game not found")
        ELSE /\ games' = [games EXCEPT ![g].hs = h, ![g].as = a]
             /\ Continue(r, [rq EXCEPT !.pc = "us_emit", !.wrote = TRUE,
                                       !.sMembers = {games[g].home, games[g].away}])

\* The continuation of the update: the emit, then res.json.  The payload is the
\* document the update returned ({new: true}).
UpdateScoreEmit(r) ==
  /\ At(r, "updateScore", "us_emit")
  /\ Deliver(req[r].game, [game |-> req[r].game, hs |-> req[r].hs, as |-> req[r].as])
  /\ UNCHANGED <<store, nextTeam, gameSide, socks>>
  /\ Respond(r, req[r], 200, "")

\* ------------------------------------------------------------ specification
\* Spec: the team-membership and player routes, at most two requests at a time.
StoreActors == {"admin", "c1"}
StoreTeams == {1, 2, 3}

Next ==
  \/ \E a \in StoreActors, u \in PlayerUsers, t \in StoreTeams, j \in Jerseys :
       CreatePlayerBegin(a, u, t, j)
  \/ \E r \in Slots : CreatePlayerFindUser(r)
  \/ \E r \in Slots : CreatePlayerFindJersey(r)
  \/ \E r \in Slots : CreatePlayerCreate(r)
  \/ \E r \in Slots : CreatePlayerLinkUser(r)
  \/ \E r \in Slots : CreatePlayerLinkTeam(r)
  \/ \E r \in Slots : CreatePlayerRespond(r)
  \/ \E a \in StoreActors, p \in PlayerIds, t \in StoreTeams \cup {None},
        j \in Jerseys \cup {None} : UpdatePlayerBegin(a, p, t, j)
  \/ \E r \in Slots : UpdatePlayerWrite(r)
  \/ \E a \in StoreActors, p \in PlayerIds : DeletePlayerBegin(a, p)
  \/ \E r \in Slots : DeletePlayerPull(r)
  \/ \E r \in Slots : DeletePlayerUnsetUser(r)
  \/ \E r \in Slots : DeletePlayerDelete(r)
  \/ \E a \in StoreActors, t \in StoreTeams, p \in PlayerIds : AddPlayerBegin(a, t, p)
  \/ \E r \in Slots : AddPlayerFindPlayer(r)
  \/ \E r \in Slots : AddPlayerSetTeam(r)
  \/ \E r \in Slots : AddPlayerAddToSet(r)
  \/ \E r \in Slots : AddPlayerLinkUser(r)
  \/ \E r \in Slots : AddPlayerRespond(r)
  \/ \E a \in StoreActors, t \in StoreTeams, p \in PlayerIds : RemovePlayerBegin(a, t, p)
  \/ \E r \in Slots : RemovePlayerFindPlayer(r)
  \/ \E r \in Slots : RemovePlayerPull(r)
  \/ \E r \in Slots : RemovePlayerSetNull(r)
  \/ \E r \in Slots : RemovePlayerUserNull(r)
  \/ \E r \in Slots : RemovePlayerRespond(r)
  \/ \E a \in StoreActors, t \in StoreTeams : DeleteTeamBegin(a, t)
  \/ \E r \in Slots : DeleteTeamUnsetPlayers(r)
  \/ \E r \in Slots : DeleteTeamPullManaged(r)
  \/ \E r \in Slots : DeleteTeamUnsetUsers(r)
  \/ \E r \in Slots : DeleteTeamDelete(r)

Spec == Init /\ [][Next]_vars

\* SpecRoster: deleting a team while players are created for teams and added to
\* them.
NextRoster ==
  \/ \E a \in StoreActors, u \in PlayerUsers, t \in StoreTeams, j \in Jerseys :
       CreatePlayerBegin(a, u, t, j)
  \/ \E r \in Slots : CreatePlayerFindUser(r)
  \/ \E r \in Slots : CreatePlayerFindJersey(r)
  \/ \E r \in Slots : CreatePlayerCreate(r)
  \/ \E r \in Slots : CreatePlayerLinkUser(r)
  \/ \E r \in Slots : CreatePlayerLinkTeam(r)
  \/ \E r \in Slots : CreatePlayerRespond(r)
  \/ \E a \in StoreActors, t \in StoreTeams, p \in PlayerIds : AddPlayerBegin(a, t, p)
  \/ \E r \in Slots : AddPlayerFindPlayer(r)
  \/ \E r \in Slots : AddPlayerSetTeam(r)
  \/ \E r \in Slots : AddPlayerAddToSet(r)
  \/ \E r \in Slots : AddPlayerLinkUser(r)
  \/ \E r \in Slots : AddPlayerRespond(r)
  \/ \E a \in StoreActors, t \in StoreTeams : DeleteTeamBegin(a, t)
  \/ \E r \in Slots : DeleteTeamUnsetPlayers(r)
  \/ \E r \in Slots : DeleteTeamPullManaged(r)
  \/ \E r \in Slots : DeleteTeamUnsetUsers(r)
  \/ \E r \in Slots : DeleteTeamDelete(r)

SpecRoster == Init /\ [][NextRoster]_vars

\* SpecTeams: creating teams and writing their win/loss counters.
TeamActors == {"admin", "c1", "c3"}
Counters == {0, 1}
BodyPercentages == {NoWp, <<0, 1>>, <<1, 2>>, <<1, 1>>}

NextTeams ==
  \/ \E a \in TeamActors, n \in TeamNames, c \in {"", "c2"} : CreateTeamBegin(a, n, c)
  \/ \E r \in Slots : CreateTeamCreate(r)
  \/ \E r \in Slots : CreateTeamAddManaged(r)
  \/ \E r \in Slots : CreateTeamRespond(r)
  \/ \E a \in TeamActors, t \in TeamIds, sh \in {"nested", "dotted"},
        w \in Counters, l \in Counters, wp \in BodyPercentages :
       UpdateTeamBegin(a, t, sh, w, l, wp)
  \/ \E r \in Slots : UpdateTeamWrite(r)

SpecTeams == Init /\ [][NextTeams]_vars

\* SpecGames: the game routes, called by every kind of user.
GameActors == {"admin", "c1", "c3", "u1", Anon}
Scores == {0, 1}

NextGames ==
  \/ \E a \in GameActors, h \in TeamIds, w \in TeamIds : CreateGame(a, h, w)
  \/ \E a \in GameActors, g \in GameIds, h \in Scores \cup {-1}, w \in Scores :
       UpdateGame(a, g, h, w)
  \/ \E a \in GameActors, g \in GameIds, h \in Scores \cup {-1}, w \in Scores :
       UpdateScoreBegin(a, g, h, w)
  \/ \E r \in Slots : UpdateScoreEmit(r)
  \/ \E a \in GameActors, g \in GameIds : DeleteGame(a, g)

SpecGames == Init /\ [][NextGames]_vars

\* SpecLive: clients of the real-time gateway and score updates.
LiveActors == {"admin"}
LiveTokens == {"none", "bad", "ghost", "c1"}

NextLive ==
  \/ \E c \in ConnIds, n \in Namespaces, k \in LiveTokens : Connect(c, n, k)
  \/ \E c \in ConnIds, g \in GameIds : JoinGame(c, g)
  \/ \E c \in ConnIds, d \in UpdatePayloads : EmitUpdateGame(c, d)
  \/ \E a \in LiveActors, g \in GameIds, h \in Scores, w \in Scores :
       UpdateScoreBegin(a, g, h, w)
  \/ \E r \in Slots : UpdateScoreEmit(r)

SpecLive == Init /\ [][NextLive]_vars

\* ------------------------------------------------------------------ claims
Sent == resp.rq.kind # "idle"
ExistingPlayers == {p \in PlayerIds : players[p].exists}

\* The coaches of the teams in ts that exist.
CoachesOf(ts) == {teams[t].coach : t \in {x \in ts \cap TeamIds : teams[x].exists}}

\* C1: a coach who does not coach the target team, the team of the target player
\* or a team of the target game gets 403 from every coach-gated mutation route,
\* and the request writes nothing.
C1_ForeignCoachGets403 ==
  /\ ( /\ Sent
       /\ resp.rq.kind \in {"updateGame", "updateScore", "deleteGame"}
       /\ resp.rq.actor \in Coaches
       /\ resp.rq.sMembers # {}
       /\ resp.rq.actor \notin CoachesOf(resp.rq.sMembers) )
     => (resp.code = 403 /\ ~resp.rq.wrote)
  /\ ( /\ Sent
       /\ resp.rq.kind \in {"updateTeam", "deleteTeam", "addPlayer", "removePlayer",
                            "createPlayer"}
       /\ resp.rq.actor \in Coaches
       /\ resp.rq.team \in TeamIds
       /\ resp.rq.actor \notin CoachesOf({resp.rq.team})
       /\ CoachesOf({resp.rq.team}) # {} )
     => (resp.code = 403 /\ ~resp.rq.wrote)
  /\ ( /\ Sent
       /\ resp.rq.kind \in {"updatePlayer", "deletePlayer"}
       /\ resp.rq.actor \in Coaches
       /\ resp.rq.pc = "start"
       /\ players[resp.rq.player].exists
       /\ PopulatedTeam(resp.rq.player) # None
       /\ teams[PopulatedTeam(resp.rq.player)].coach # resp.rq.actor )
     => (resp.code = 403 /\ ~resp.rq.wrote)

C5_TakenJerseyAnswered400 ==
  ( /\ Sent
    /\ resp.rq.kind = "createPlayer"
    /\ resp.rq.pc \in {"cp_findJersey", "cp_create"}
    /\ resp.rq.newId = None
    /\ \E p \in ExistingPlayers :
         players[p].team = resp.rq.team /\ players[p].jersey = resp.rq.jersey )
  => /\ resp.code = 400
     /\ resp.msg = "Jersey number already taken in this team"
     /\ ~resp.rq.wrote

\* C6: when DELETE /api/players/:id answers 200 the player document is gone, no
\* team lists the player, and the linked user has no team and no playerProfile.
C6_DeletePlayerClearsAll ==
  (Sent /\ resp.rq.kind = "deletePlayer" /\ resp.code = 200)
    => /\ ~players[resp.rq.player].exists
       /\ \A t \in TeamIds : resp.rq.player \notin teams[t].members
       /\ users[resp.rq.sUser].team = None
       /\ users[resp.rq.sUser].profile = None

\* The winPercentage a read of team t returns: the stored value, or the schema
\* default 0 when the document has no such field.
StoredPercentage(t) == IF teams[t].wp = NoWp THEN <<0, 1>> ELSE teams[t].wp

\* C7: in every state a team's stored winPercentage is wins/(wins+losses), and 0
\* when the team has no games.
C7_WinPercentageMatches ==
  \A t \in TeamIds :
    teams[t].exists =>
      LET total == teams[t].wins + teams[t].losses
          wp == StoredPercentage(t)
      IN IF total > 0
           THEN wp[1] * total = teams[t].wins * wp[2]
           ELSE wp[1] = 0

\* C8: no two Player documents carry the same (team, jerseyNumber) pair.
C8_JerseyUniquePerTeam ==
  \A p \in ExistingPlayers, q \in ExistingPlayers :
    p # q => ~(players[p].team = players[q].team /\ players[p].jersey = players[q].jersey)

\* C8 witness: add-player-to-team was refused by the store (500) because a player
\* of the target team already wears the moved player's number.
C8_Witness ==
  /\ Sent /\ resp.rq.kind = "addPlayer" /\ resp.code = 500
  /\ \E q \in ExistingPlayers :
       /\ q # resp.rq.player
       /\ players[q].team = resp.rq.team
       /\ players[q].jersey = players[resp.rq.player].jersey

\* C9: DELETE /api/players/:id and DELETE /api/games/:id from a coach or a player
\* are never carried out: the answer is a refusal (403, or 404 for a document that
\* does not exist) and nothing is removed.
C9_DeleteIsAdminOnly ==
  ( /\ Sent
    /\ resp.rq.kind \in {"deletePlayer", "deleteGame"}
    /\ resp.rq.actor \in Coaches \cup PlayerUsers )
  => (resp.code \in {403, 404} /\ ~resp.rq.wrote)

\* C10: when DELETE /api/teams/:id/players/:playerId answers 200 no team lists the
\* player, the player's team is empty and the linked user's team is empty.
C10_RemovePlayerClearsAll ==
  (Sent /\ resp.rq.kind = "removePlayer" /\ resp.code = 200)
    => /\ \A t \in TeamIds : resp.rq.player \notin teams[t].members
       /\ players[resp.rq.player].exists => players[resp.rq.player].team = None
       /\ users[resp.rq.sUser].team = None

\* No request is in progress.
Quiet == \A r \in Slots : IsIdle(r)
ExistingTeams == {t \in TeamIds : teams[t].exists}

\* C11: whenever no request is in progress and every request so far succeeded, a
\* player is in a team's players list exactly when the player's team field is
\* that team, and then the linked user's team field is that team too.
C11_LinksConsistent ==
  (Quiet /\ ~failed) =>
    \A p \in ExistingPlayers, t \in ExistingTeams :
      /\ (p \in teams[t].members) <=> (players[p].team = t)
      /\ (players[p].team = t) => (users[players[p].user].team = t)

\* C12: a create request that names a document that does not exist is answered
\* with an error and inserts nothing: a POST /api/players naming a missing user or
\* team, and a POST /api/games whose homeTeam or awayTeam matches no Team.
C12_CreateChecksReferences ==
  /\ ( /\ Sent
       /\ resp.rq.kind = "createPlayer"
       /\ resp.rq.pc = "start"
       /\ resp.rq.actor \in Admins
       /\ (resp.rq.user \notin UserIds \/ resp.rq.team \notin ExistingTeams) )
     => (resp.code >= 400 /\ ~resp.rq.wrote)
  /\ ( /\ Sent
       /\ resp.rq.kind = "createGame"
       /\ resp.rq.wrote )
     => /\ games[resp.rq.game].home \in ExistingTeams
        /\ games[resp.rq.game].away \in ExistingTeams

\* C13: a create-team request that meets its name already carried by a team, at
\* its check or at its insert, is answered 400 and has written nothing (no team,
\* no managedTeams entry).
C13_TakenNameAnswered400 ==
  ( /\ Sent
    /\ resp.rq.kind = "createTeam"
    /\ resp.rq.actor \in Admins \cup Coaches
    /\ resp.rq.newId = None
    /\ \E t \in ExistingTeams : teams[t].name = resp.rq.name )
  => (resp.code = 400 /\ ~resp.rq.wrote)

C16_EventsLeaveStore ==
  [][resp'.rq.kind \in {"joinGame", "updateGame"}
       => UNCHANGED <<games, teams, players, users>>]_vars

\* C16 witness: an updateGame naming an existing game, with scores other than the
\* stored ones, was handled by the connection handler.
C16_Witness ==
  /\ resp.rq.kind = "updateGame"
  /\ socks[resp.rq.conn].handler
  /\ resp.rq.payload.given
  /\ games[resp.rq.payload.game].exists
  /\ games[resp.rq.payload.game].hs # resp.rq.payload.hs

\* Teams that were deleted: ids already given out whose document is gone.
DeletedTeams == {t \in TeamIds : t < nextTeam /\ ~teams[t].exists}

\* C17: once DELETE /api/teams/:id has answered 200 no player and no user has the
\* deleted team in its team field and no coach has it in managedTeams, both at
\* the moment of the answer and after an add-player or create-player request that
\* ran alongside has completed as well.
C17_DeletedTeamUnreferenced ==
  \A t \in DeletedTeams :
    ( \/ (resp.rq.kind = "deleteTeam" /\ resp.code = 200 /\ resp.rq.team = t)
      \/ (Quiet /\ ~failed) )
    => /\ \A p \in ExistingPlayers : players[p].team # t
       /\ \A u \in UserIds : users[u].team # t /\ t \notin users[u].managed

\* C18: no two Player documents are linked to the same user.
C18_OneProfilePerUser ==
  \A p \in ExistingPlayers, q \in ExistingPlayers :
    p # q => players[p].user # players[q].user

\* C19: a step of a remove-player request whose player exists and is not on team
\* :id changes neither that player's team field, nor the linked user's team
\* field, nor any team's players list.
C19_RemoveOnlyFromOwnTeam ==
  [][\A r \in Slots :
       LET p == req[r].player
       IN ( /\ req[r].kind = "removePlayer"
            /\ req'[r] # req[r]
            /\ players[p].exists
            /\ players[p].team # req[r].team )
          => /\ players'[p].team = players[p].team
             /\ users'[players[p].user].team = users[players[p].user].team
             /\ \A t \in TeamIds : teams'[t].members = teams[t].members]_vars

\* C20: a PUT or DELETE /api/players/:id by an admin on a player that exists when
\* the request arrives is answered 200, never 500, whatever the player's team
\* field holds.
C20_AdminAlwaysManages ==
  ( /\ Sent
    /\ resp.rq.kind \in {"updatePlayer", "deletePlayer"}
    /\ resp.rq.actor \in Admins
    /\ (resp.rq.pc = "start" => players[resp.rq.player].exists) )
  => resp.code = 200

\* C21: when the last of the score calls completes, the gameUpdated event it has
\* just emitted, the last event for that game, carries the scores stored for the
\* game.
C21_LastEventIsStoredScore ==
  (resp.rq.kind = "updateScore" /\ resp.code = 200 /\ Quiet)
    => /\ games[resp.rq.game].hs = resp.rq.hs
       /\ games[resp.rq.game].as = resp.rq.as
====
